---- MODULE Spec2Model ----
(***************************************************************************)
(* gtml TemplateManager: construction of the template catalog (Init,       *)
(* loadLayoutsAndPartials) and the dispatch of one response (render,       *)
(* handleError).  Paths, page names, template names and error texts are    *)
(* strings, computed with the string operations the Go code uses.          *)
(***************************************************************************)
EXTENDS Integers, Sequences, FiniteSets, TLC

\* ------------------------------------------------------------ constants.go
LayoutsDir == "layouts"
PartialsDir == "partials"
ViewsDir == "views"
SystemDir == "system"
DefaultBaseLayout == "base"

\* --------------------------------------------------------------- errors.go
ErrTempNotFound == "template not found"

\* ------------------------------------------------------------------ bounds
\* Number of changes made to the source trees between two Init calls.
MaxEdits == 1

\* ------------------------------------------------------- string operations
\* strings.HasPrefix
HasPrefix(s, p) == Len(s) >= Len(p) /\ SubSeq(s, 1, Len(p)) = p

\* strings.HasSuffix
HasSuffix(s, p) == Len(s) >= Len(p) /\ SubSeq(s, Len(s) - Len(p) + 1, Len(s)) = p

\* strings.TrimSuffix
TrimSuffix(s, suffix) ==
    IF HasSuffix(s, suffix) THEN SubSeq(s, 1, Len(s) - Len(suffix)) ELSE s

\* Index of the last "/" of s, 0 when there is none.
RECURSIVE LastSlash(_, _)
LastSlash(s, i) ==
    IF i = 0 THEN 0
    ELSE IF SubSeq(s, i, i) = "/" THEN i
    ELSE LastSlash(s, i - 1)

\* filepath.Ext: the suffix beginning at the final dot of the final element.
RECURSIVE ExtFrom(_, _)
ExtFrom(path, i) ==
    IF i = 0 THEN ""
    ELSE IF SubSeq(path, i, i) = "/" THEN ""
    ELSE IF SubSeq(path, i, i) = "." THEN SubSeq(path, i, Len(path))
    ELSE ExtFrom(path, i - 1)

Ext(path) == ExtFrom(path, Len(path))

\* path.Base for the clean, non-empty paths a walk yields.
Base(path) == SubSeq(path, LastSlash(path, Len(path)) + 1, Len(path))

\* filepath.Rel for clean relative paths: the target itself when the base is
\* empty, the remainder when the base is a leading directory of the target.
Rel(basepath, targpath) ==
    IF basepath = "" \/ basepath = "." THEN targpath
    ELSE IF targpath = basepath THEN "."
    ELSE IF HasPrefix(targpath, basepath \o "/")
         THEN SubSeq(targpath, Len(basepath) + 2, Len(targpath))
    ELSE "../" \o targpath

\* --------------------------------------------------- manager configuration
\* The options the manager is constructed with.
Options == [Extension |-> "html", BaseLayout |-> "", SystemLayout |-> ""]

\* NewTemplateManager: the extension defaults to ".html" and is made to
\* start with a dot.
NewExtension(ext) ==
    IF ext = "" THEN ".html"
    ELSE IF SubSeq(ext, 1, 1) # "." THEN "." \o ext
    ELSE ext

extension == NewExtension(Options.Extension)

\* NewTemplateManager: the base layout defaults to DefaultBaseLayout.
baseLayout == IF Options.BaseLayout = "" THEN DefaultBaseLayout ELSE Options.BaseLayout

\* ------------------------------------------------------------ source trees
\* fileSystemMap: the names of the sources.
Sources == {"-", "", "blog"}

\* Every file a source tree may hold, sources in no order, the files of one
\* source in the lexical order fs.WalkDir and fs.Glob visit them.
WalkOrder == <<
    [fs |-> "-",    path |-> "layouts/base.html"],
    [fs |-> "-",    path |-> "partials/nav.html"],
    [fs |-> "-",    path |-> "views/home.html"],
    [fs |-> "-",    path |-> "views/index.html"],
    [fs |-> "-",    path |-> "views/notes.txt"],
    [fs |-> "-",    path |-> "views/system/server-error.html"],
    [fs |-> "",     path |-> "layouts/plain.html"],
    [fs |-> "",     path |-> "views/index.html"],
    [fs |-> "blog", path |-> "layouts/base.html"],
    [fs |-> "blog", path |-> "views/index.html"] >>

FileIds == {WalkOrder[i] : i \in 1..Len(WalkOrder)}

\* The names a file defines with {{define}}.
Defines(f) ==
    IF HasPrefix(f.path, LayoutsDir \o "/")
    THEN {"layout:" \o TrimSuffix(Base(f.path), Ext(f.path))}
    ELSE IF HasPrefix(f.path, PartialsDir \o "/")
    THEN {TrimSuffix(Base(f.path), Ext(f.path))}
    ELSE {"content"}

FileStates == {"absent", "good", "bad"}

VARIABLES
    files,            \* the source trees: file -> absent | good | bad (does not parse)
    edits,            \* changes made to the source trees so far
    templates,        \* tm.templates: page name -> template set
    pc,               \* position of the Init call: idle | load | walk
    commonTemplates,  \* loadLayoutsAndPartials' commonTemplates
    loadLeft,         \* sources the loop of loadLayoutsAndPartials has not yet visited
    walkLeft,         \* sources the loop of Init has not yet visited
    walkQueue,        \* files fs.WalkDir has still to hand to processDirectory
    initErr,          \* what the last Init call returned: "none" before any, "nil", or the error
    builtFrom,        \* the source trees as they were when Init was last called
    callTemplates,    \* tm.templates as it was when Init was last called
    callErr,          \* initErr as it was when Init was last called
    callBuiltFrom,    \* builtFrom as it was when Init was last called
    rpc,              \* position of the render call: idle | lookup | exec | headers | body | done | fatal
    resp,             \* the Response being rendered
    writeFails,       \* whether the sink's Write of the body fails
    tmpl,             \* render's tmpl
    buf,              \* render's buf
    hdrLeft,          \* keys of resp.Headers() the loop has not yet visited
    sink,             \* the calls made on the http.ResponseWriter, in order
    outcome,          \* how the render call went: "" | notfound | execerr | ok | writeerr
    handleErrorCalls, \* calls of handleError made by the render call
    lookupAt          \* what the manager looked like when render read tm.templates

buildVars == <<files, edits, templates, pc, commonTemplates, loadLeft, walkLeft,
               walkQueue, initErr, builtFrom, callTemplates, callErr, callBuiltFrom>>

renderVars == <<rpc, resp, writeFails, tmpl, buf, hdrLeft, sink, outcome,
                handleErrorCalls, lookupAt>>

vars == <<buildVars, renderVars>>

\* ------------------------------------------------------------ template sets
\* A template set maps a template name to the file whose definition it holds.
EmptyMap == [n \in {} |-> n]

\* template.New("_common_")
NewCommon == EmptyMap

\* The names parsing file f defines: the file's base name and its {{define}}s.
ParsedNames(f) == {Base(f.path)} \cup Defines(f)

\* (*Template).ParseFS of one file that parses: every name it defines is
\* bound to it, replacing an earlier definition of the same name.
ParseFile(t, f) ==
    [n \in DOMAIN t \cup ParsedNames(f) |-> IF n \in ParsedNames(f) THEN f ELSE t[n]]

\* The error of a file that does not parse.
ParseError(f) == "template: " \o Base(f.path) \o ": parse error"

\* (*Template).Clone
Clone(t) == t

ParseRes(t, err) == [t |-> t, err |-> err]

\* ParseFS over a list of files in order, stopping at the first that fails.
RECURSIVE ParseAll(_, _, _)
ParseAll(t, fl, fsys) ==
    IF fl = <<>> THEN ParseRes(t, "nil")
    ELSE IF fsys[Head(fl)] = "bad" THEN ParseRes(t, ParseError(Head(fl)))
    ELSE ParseAll(ParseFile(t, Head(fl)), Tail(fl), fsys)

\* The files of source s under directory dir that exist, in walk order.
InDir(fsys, s, dir) ==
    SelectSeq(WalkOrder, LAMBDA f : /\ f.fs = s
                                    /\ fsys[f] # "absent"
                                    /\ HasPrefix(f.path, dir \o "/"))

\* fs.Glob of dir/*ext: the direct children of dir whose name ends with ext.
Glob(fsys, s, dir, ext) ==
    SelectSeq(InDir(fsys, s, dir),
              LAMBDA f : /\ LastSlash(f.path, Len(f.path)) = Len(dir) + 1
                         /\ HasSuffix(f.path, ext))

\* The files of a walk that processPartials / processDirectory parse.
Matching(fl) == SelectSeq(fl, LAMBDA f : Ext(f.path) = extension)

\* One iteration of the loop of loadLayoutsAndPartials, for source s: the
\* layouts (ParseFS fails when the pattern matches no file), then the walk of
\* the partials directory if it exists.
LoadSourceInto(t, fsys, s) ==
    LET layouts == Glob(fsys, s, LayoutsDir, extension)
        l == ParseAll(t, layouts, fsys)
    IN  IF layouts = <<>>
        THEN ParseRes(t, "template: pattern matches no files: " \o LayoutsDir \o "/*" \o extension)
        ELSE IF l.err # "nil" THEN l
        ELSE ParseAll(l.t, Matching(InDir(fsys, s, PartialsDir)), fsys)

\* A page name without the source prefix.
PageNameUnprefixed(fsID, path) == TrimSuffix(Rel("", path), Ext(Rel("", path)))

\* The page name Init derives for a view file of source fsID.
PageName(fsID, path) ==
    LET relPath == Rel("", path)
        pageName == TrimSuffix(relPath, Ext(relPath))
    IN  IF fsID # "" /\ fsID # "-" THEN fsID \o ":" \o pageName ELSE pageName

\* ---------------------------------------------------------------- Response
\* The Responses render is called with: TemplatePath(), TemplateLayout(),
\* StatusCode(), Headers() and the data of ViewData(r); data "bad" stands for
\* a value the layout cannot be executed against.
HeaderMaps ==
    { EmptyMap,
      [k \in {"X-Frame-Options"} |-> "DENY"],
      [k \in {"X-Frame-Options", "Content-Type"} |->
          IF k = "Content-Type" THEN "text/html" ELSE "DENY"] }

Responses ==
    [ path    : {"views/home", "home", "views/system/server-error", "views/index"},
      layout  : {"base", "wide"},
      status  : {200, 404},
      headers : HeaderMaps,
      data    : {"Hi", "bad"} ]

\* The Responses of the render calls that run beside Init.
LookupResponses ==
    [ path    : {"views/home", "home"},
      layout  : {"base"},
      status  : {200},
      headers : {[k \in {"X-Frame-Options"} |-> "DENY"]},
      data    : {"Hi"} ]

NoResponse == [path |-> "", layout |-> "", status |-> 0, headers |-> EmptyMap, data |-> ""]

NotLooked == [pc |-> "", err |-> "", old |-> {}, oldOk |-> FALSE, new |-> {}]

\* -------------------------------------------------------------------- Init
TypeOK ==
    /\ files \in [FileIds -> FileStates]
    /\ edits \in 0..MaxEdits
    /\ pc \in {"idle", "load", "walk"}
    /\ loadLeft \subseteq Sources
    /\ walkLeft \subseteq Sources

Init ==
    /\ files = [f \in FileIds |-> "good"]
    /\ edits = 0
    /\ templates = EmptyMap
    /\ pc = "idle"
    /\ commonTemplates = NewCommon
    /\ loadLeft = {}
    /\ walkLeft = {}
    /\ walkQueue = <<>>
    /\ initErr = "none"
    /\ builtFrom = [f \in FileIds |-> "absent"]
    /\ callTemplates = EmptyMap
    /\ callErr = "none"
    /\ callBuiltFrom = [f \in FileIds |-> "absent"]
    /\ rpc = "idle"
    /\ resp = NoResponse
    /\ writeFails = FALSE
    /\ tmpl = EmptyMap
    /\ buf = ""
    /\ hdrLeft = {}
    /\ sink = <<>>
    /\ outcome = ""
    /\ handleErrorCalls = 0
    /\ lookupAt = NotLooked

\* A source tree changes between two Init calls: a file is added, removed,
\* or its content replaced.
EditFile(f, st) ==
    /\ UNCHANGED renderVars
    /\ pc = "idle"
    /\ edits < MaxEdits
    /\ files[f] # st
    /\ files' = [files EXCEPT ![f] = st]
    /\ edits' = edits + 1
    /\ UNCHANGED <<templates, pc, commonTemplates, loadLeft, walkLeft, walkQueue,
                   initErr, builtFrom, callTemplates, callErr, callBuiltFrom>>

\* An Init that keeps the cache it finds.
ResetCacheKeep(old) == old

\* The template cache Init starts from.
ResetCache(old) == EmptyMap

\* Init is called: the cache is reset and loadLayoutsAndPartials starts.
InitCall ==
    /\ UNCHANGED renderVars
    /\ pc = "idle"
    /\ templates' = ResetCache(templates)
    /\ commonTemplates' = NewCommon
    /\ loadLeft' = Sources
    /\ pc' = "load"
    /\ builtFrom' = files
    /\ callTemplates' = templates
    /\ callErr' = initErr
    /\ callBuiltFrom' = builtFrom
    /\ UNCHANGED <<files, edits, walkLeft, walkQueue, initErr>>

\* Init returns err.
InitReturns(err) ==
    /\ pc' = "idle"
    /\ initErr' = err
    /\ loadLeft' = {}
    /\ walkLeft' = {}
    /\ walkQueue' = <<>>

\* loadLayoutsAndPartials visits source s (the map is ranged over in any
\* order); an error ends Init.
LoadSource(s) ==
    /\ UNCHANGED renderVars
    /\ pc = "load"
    /\ s \in loadLeft
    /\ LET r == LoadSourceInto(commonTemplates, files, s)
       IN  IF r.err # "nil"
           THEN /\ InitReturns("error loading partials. " \o r.err)
                /\ UNCHANGED commonTemplates
           ELSE /\ commonTemplates' = r.t
                /\ loadLeft' = loadLeft \ {s}
                /\ pc' = IF loadLeft = {s} THEN "walk" ELSE "load"
                /\ walkLeft' = IF loadLeft = {s} THEN Sources ELSE walkLeft
                /\ UNCHANGED <<walkQueue, initErr>>
    /\ UNCHANGED <<files, edits, templates, builtFrom, callTemplates, callErr, callBuiltFrom>>

\* Init's loop visits source s: if its views directory exists, fs.WalkDir
\* will hand its files to processDirectory.
WalkSource(s) ==
    /\ UNCHANGED renderVars
    /\ pc = "walk"
    /\ walkQueue = <<>>
    /\ s \in walkLeft
    /\ walkLeft' = walkLeft \ {s}
    /\ walkQueue' = InDir(files, s, ViewsDir)
    /\ UNCHANGED <<files, edits, templates, pc, commonTemplates, loadLeft, initErr,
                   builtFrom, callTemplates, callErr, callBuiltFrom>>

\* A page parsed into a fresh set instead of a clone of the common set.
PageTemplateNoCommon(common, f) == ParseFile(NewCommon, f)

\* The template set stored for a page: a clone of the common set, with the
\* page file parsed into it.
PageTemplate(common, f) == ParseFile(Clone(common), f)

\* processDirectory for the next file of the walk.
ProcessDirectory ==
    /\ UNCHANGED renderVars
    /\ pc = "walk"
    /\ walkQueue # <<>>
    /\ LET f == Head(walkQueue)
       IN  IF Ext(f.path) # extension
           THEN /\ walkQueue' = Tail(walkQueue)
                /\ UNCHANGED <<templates, pc, loadLeft, walkLeft, initErr>>
           ELSE IF files[f] = "bad"
           THEN /\ InitReturns(ParseError(f))
                /\ UNCHANGED templates
           ELSE /\ templates' =
                      [k \in DOMAIN templates \cup {PageName(f.fs, f.path)} |->
                          IF k = PageName(f.fs, f.path)
                          THEN PageTemplate(commonTemplates, f)
                          ELSE templates[k]]
                /\ walkQueue' = Tail(walkQueue)
                /\ UNCHANGED <<pc, loadLeft, walkLeft, initErr>>
    /\ UNCHANGED <<files, edits, commonTemplates, builtFrom, callTemplates, callErr,
                   callBuiltFrom>>

\* Every source was walked: Init returns nil.
InitDone ==
    /\ UNCHANGED renderVars
    /\ pc = "walk"
    /\ walkQueue = <<>>
    /\ walkLeft = {}
    /\ InitReturns("nil")
    /\ UNCHANGED <<files, edits, templates, commonTemplates, builtFrom, callTemplates,
                   callErr, callBuiltFrom>>

\* ------------------------------------------------------------------ render
\* http.StatusInternalServerError
StatusInternalServerError == 500

\* A call made on the http.ResponseWriter: Header().Set(key, val),
\* WriteHeader(code) or Write(val), and the error the call returned.
HeaderSet(k, v) == [op |-> "Header.Set", key |-> k, val |-> v, code |-> 0, err |-> "nil"]
WriteHeader(c) == [op |-> "WriteHeader", key |-> "", val |-> "", code |-> c, err |-> "nil"]
Write(b, e) == [op |-> "Write", key |-> "", val |-> b, code |-> 0, err |-> e]

\* http.Error: the plain-text headers, the status, the error text and a newline.
HttpError(error, code) ==
    << HeaderSet("Content-Type", "text/plain; charset=utf-8"),
       HeaderSet("X-Content-Type-Options", "nosniff"),
       WriteHeader(code),
       Write(error \o "\n", "nil") >>

\* A handleError that writes nothing.
handleErrorSilent(err) == <<>>

\* handleError: the calls it makes on the sink.
handleError(err) ==
    IF err # "nil" THEN HttpError(err, StatusInternalServerError) ELSE <<>>

\* strings.Join(parts, sep)
RECURSIVE Join(_, _)
Join(parts, sep) ==
    IF parts = <<>> THEN ""
    ELSE IF Len(parts) = 1 THEN parts[1]
    ELSE parts[1] \o sep \o Join(Tail(parts), sep)

\* A views path without the views directory.
viewsPathNoDir(path) == Join(path, "/")

\* viewsPath
viewsPath(path) == ViewsDir \o "/" \o Join(path, "/")

\* fmt.Errorf("%w: %s", ErrTempNotFound, resp.TemplatePath())
NotFoundError(path) == ErrTempNotFound \o ": " \o path

\* fmt.Errorf("error executing template: %w", err)
ExecError(err) == "error executing template: " \o err

\* The error of the sink's failing Write.
WriteError == "write: broken pipe"

FileName(f) == f.fs \o ":" \o f.path

\* (*Template).ExecuteTemplate(buf, name, data): what it wrote into buf and
\* the error it returned.  The entry point renders the set's "content"
\* definition inside its own; output written before a failure stays in buf.
ExecuteTemplate(t, name, data) ==
    IF name \notin DOMAIN t
    THEN [out |-> "", err |-> "html/template: " \o name \o " is undefined"]
    ELSE IF "content" \notin DOMAIN t
    THEN [out |-> "<" \o FileName(t[name]) \o ">",
          err |-> "template: " \o name \o ": no such template content"]
    ELSE IF data = "bad"
    THEN [out |-> "<" \o FileName(t[name]) \o ">",
          err |-> "template: " \o name \o ": can't evaluate field Title"]
    ELSE [out |-> "<" \o FileName(t[name]) \o "><" \o FileName(t["content"]) \o ">" \o data,
          err |-> "nil"]

\* The page names a complete build from the source trees fsys holds.
ViewKeys(fsys) ==
    {PageName(f.fs, f.path) :
        f \in {g \in FileIds : /\ fsys[g] # "absent"
                               /\ HasPrefix(g.path, ViewsDir \o "/")
                               /\ Ext(g.path) = extension}}

\* render is called with Response r on a fresh sink.
RenderCall(r, wf) ==
    /\ rpc = "idle"
    /\ rpc' = "lookup"
    /\ resp' = r
    /\ writeFails' = wf
    /\ tmpl' = EmptyMap
    /\ buf' = ""
    /\ hdrLeft' = {}
    /\ sink' = <<>>
    /\ outcome' = ""
    /\ handleErrorCalls' = 0
    /\ lookupAt' = NotLooked
    /\ UNCHANGED buildVars

\* tmpl, ok := tm.templates[path]; a missing page goes to handleError.
RenderLookup ==
    /\ rpc = "lookup"
    /\ lookupAt' = [pc |-> pc, err |-> initErr, old |-> DOMAIN callTemplates,
                    oldOk |-> (callErr = "nil"), new |-> ViewKeys(builtFrom)]
    /\ IF resp.path \notin DOMAIN templates
       THEN /\ sink' = sink \o handleError(NotFoundError(resp.path))
            /\ handleErrorCalls' = handleErrorCalls + 1
            /\ outcome' = "notfound"
            /\ rpc' = "done"
            /\ UNCHANGED tmpl
       ELSE /\ tmpl' = templates[resp.path]
            /\ rpc' = "exec"
            /\ UNCHANGED <<sink, handleErrorCalls, outcome>>
    /\ UNCHANGED <<resp, writeFails, buf, hdrLeft>>
    /\ UNCHANGED buildVars

\* The map read runs unsynchronized while Init writes the map: the runtime may
\* end the process ("concurrent map read and map write").
RenderLookupRace ==
    /\ rpc = "lookup"
    /\ pc # "idle"
    /\ rpc' = "fatal"
    /\ outcome' = "fatal"
    /\ UNCHANGED <<resp, writeFails, tmpl, buf, hdrLeft, sink, handleErrorCalls, lookupAt>>
    /\ UNCHANGED buildVars

\* The layout is executed into buf; a failure writes the error to the sink,
\* directly when the page is the system error page, else through handleError.
RenderExecute ==
    /\ rpc = "exec"
    /\ LET layout == "layout:" \o resp.layout
           r == ExecuteTemplate(tmpl, layout, resp.data)
       IN  /\ buf' = r.out
           /\ IF r.err # "nil"
              THEN /\ IF resp.path = viewsPath(<<SystemDir, "server-error">>)
                      THEN /\ sink' = sink \o HttpError(ExecError(r.err),
                                                        StatusInternalServerError)
                           /\ UNCHANGED handleErrorCalls
                      ELSE /\ sink' = sink \o handleError(ExecError(r.err))
                           /\ handleErrorCalls' = handleErrorCalls + 1
                   /\ outcome' = "execerr"
                   /\ rpc' = "done"
                   /\ UNCHANGED hdrLeft
              ELSE /\ hdrLeft' = DOMAIN resp.headers
                   /\ rpc' = "headers"
                   /\ UNCHANGED <<sink, handleErrorCalls, outcome>>
    /\ UNCHANGED <<resp, writeFails, tmpl, lookupAt>>
    /\ UNCHANGED buildVars

\* One iteration of the loop over resp.Headers(), in any order.
RenderSetHeader(key) ==
    /\ rpc = "headers"
    /\ key \in hdrLeft
    /\ sink' = Append(sink, HeaderSet(key, resp.headers[key]))
    /\ hdrLeft' = hdrLeft \ {key}
    /\ UNCHANGED <<rpc, resp, writeFails, tmpl, buf, outcome, handleErrorCalls, lookupAt>>
    /\ UNCHANGED buildVars

\* The status written without waiting for the loop over the headers to end.
RenderWriteHeaderEarly ==
    /\ rpc = "headers"
    /\ sink' = Append(sink, WriteHeader(resp.status))
    /\ rpc' = "body"
    /\ UNCHANGED <<resp, writeFails, tmpl, buf, hdrLeft, outcome, handleErrorCalls, lookupAt>>
    /\ UNCHANGED buildVars

\* w.WriteHeader(resp.StatusCode()), after the loop over the headers.
RenderWriteHeader ==
    /\ rpc = "headers"
    /\ hdrLeft = {}
    /\ sink' = Append(sink, WriteHeader(resp.status))
    /\ rpc' = "body"
    /\ UNCHANGED <<resp, writeFails, tmpl, buf, hdrLeft, outcome, handleErrorCalls, lookupAt>>
    /\ UNCHANGED buildVars

\* buf.WriteTo(w); when the write fails, http.Error is called on the sink.
RenderWriteTo ==
    /\ rpc = "body"
    /\ IF writeFails
       THEN /\ sink' = Append(sink, Write(buf, WriteError))
                       \o HttpError(WriteError, StatusInternalServerError)
            /\ outcome' = "writeerr"
       ELSE /\ sink' = Append(sink, Write(buf, "nil"))
            /\ outcome' = "ok"
    /\ rpc' = "done"
    /\ UNCHANGED <<resp, writeFails, tmpl, buf, hdrLeft, handleErrorCalls, lookupAt>>
    /\ UNCHANGED buildVars

\* render returns: the request is over and its sink is gone.
RenderReturn ==
    /\ rpc = "done"
    /\ rpc' = "idle"
    /\ resp' = NoResponse
    /\ writeFails' = FALSE
    /\ tmpl' = EmptyMap
    /\ buf' = ""
    /\ hdrLeft' = {}
    /\ sink' = <<>>
    /\ outcome' = ""
    /\ handleErrorCalls' = 0
    /\ lookupAt' = NotLooked
    /\ UNCHANGED buildVars

\* The steps of a render call after it was called.
RenderStep ==
    \/ RenderLookup
    \/ RenderExecute
    \/ \E key \in {"X-Frame-Options", "Content-Type"} : RenderSetHeader(key)
    \/ RenderWriteHeader
    \/ RenderWriteTo
    \/ RenderReturn

\* --------------------------------------------------------- specifications
BuildStep ==
    \/ InitCall
    \/ \E s \in Sources : LoadSource(s)
    \/ \E s \in Sources : WalkSource(s)
    \/ ProcessDirectory
    \/ InitDone

NextBuild ==
    \/ BuildStep
    \/ \E f \in FileIds, st \in FileStates : EditFile(f, st)

\* Catalog construction over source trees that change between the calls.
SpecBuild == Init /\ [][NextBuild]_vars

\* Render calls between Init calls, over unchanging source trees.
NextRender ==
    \/ (rpc = "idle" /\ BuildStep)
    \/ (pc = "idle" /\ \E r \in Responses, wf \in BOOLEAN : RenderCall(r, wf))
    \/ RenderStep

SpecRender == Init /\ [][NextRender]_vars

\* A render call running beside Init calls, over unchanging source trees.
Next ==
    \/ (rpc # "fatal" /\ BuildStep)
    \/ \E r \in LookupResponses : RenderCall(r, FALSE)
    \/ RenderLookupRace
    \/ RenderStep

Spec == Init /\ [][Next]_vars

\* ------------------------------------------------------------- properties
InitSucceeded == pc = "idle" /\ initErr = "nil"
InitFailed == pc = "idle" /\ initErr \notin {"none", "nil"}

IsView(f) == HasPrefix(f.path, ViewsDir \o "/")

\* The layout and partial files of the source trees fsys that Init parses.
CommonFiles(fsys) ==
    {f \in FileIds : /\ fsys[f] # "absent"
                     /\ Ext(f.path) = extension
                     /\ \/ HasPrefix(f.path, LayoutsDir \o "/")
                        \/ HasPrefix(f.path, PartialsDir \o "/")}

\* The view files whose definitions template set b holds.
ViewFilesIn(b) == {b[n] : n \in DOMAIN b} \cap {f \in FileIds : IsView(f)}

\* The writes of sink s with operation op.
Calls(s, op) == {i \in 1..Len(s) : s[i].op = op}

\* C1: when Init fails, the catalog is the one that was active before the call.
C1_FailedInitKeepsCatalog == InitFailed => templates = callTemplates

\* C2: a render that reads the catalog while Init rebuilds it does not report
\* a page of both the old and the new catalog as not found.
C2_RenderSeesCompleteCatalog ==
    ~ ( /\ outcome = "notfound"
        /\ lookupAt.pc # "idle"
        /\ lookupAt.oldOk
        /\ resp.path \in lookupAt.old
        /\ resp.path \in lookupAt.new )

\* C3: a render that fails before the final write puts on the sink status 500
\* once and the error text as the only body, and neither a header nor the
\* status of the Response nor any template output; a missing page is reported
\* as "template not found: <page>".
C3_FailureIsPlain500 ==
    outcome \in {"notfound", "execerr"} =>
        /\ \E i \in 1..Len(sink) :
              /\ Calls(sink, "WriteHeader") = {i}
              /\ sink[i].code = 500
              /\ \E j \in (i + 1)..Len(sink) :
                    /\ Calls(sink, "Write") = {j}
                    /\ Len(sink[j].val) > 1
                    /\ outcome = "notfound" =>
                          sink[j].val = "template not found: " \o resp.path \o "\n"
                    /\ outcome = "execerr" =>
                          /\ HasPrefix(sink[j].val, "error executing template: ")
                          /\ buf # "" => ~ HasPrefix(sink[j].val, buf)
        /\ \A i \in 1..Len(sink) :
              /\ sink[i].op = "Header.Set" =>
                    ~ ( /\ sink[i].key \in DOMAIN resp.headers
                        /\ sink[i].val = resp.headers[sink[i].key] )
              /\ sink[i].op = "WriteHeader" => sink[i].code # resp.status

C3_Witness ==
    /\ outcome = "execerr"
    /\ buf # ""
    /\ DOMAIN resp.headers # {}
    /\ handleErrorCalls = 1

\* The first n writes of the sink set the n headers of the Response, each once.
HeadersSet(n) ==
    /\ Len(sink) >= n
    /\ \A i \in 1..n :
          /\ sink[i].op = "Header.Set"
          /\ sink[i].key \in DOMAIN resp.headers
          /\ sink[i].val = resp.headers[sink[i].key]
    /\ Cardinality({sink[i].key : i \in 1..n}) = n

\* C4: on a successful render the sink receives every header of the Response,
\* then the Response's status once, then the whole template output as the
\* body; nothing but headers is written before that, and nothing at all
\* before the template was executed.
C4_SuccessOrder ==
    /\ rpc \in {"lookup", "exec"} => sink = <<>>
    /\ rpc = "headers" =>
          HeadersSet(Len(sink)) /\ Len(sink) <= Cardinality(DOMAIN resp.headers)
    /\ outcome = "ok" =>
          LET n == Cardinality(DOMAIN resp.headers)
          IN  /\ Len(sink) = n + 2
              /\ HeadersSet(n)
              /\ sink[n + 1].op = "WriteHeader"
              /\ sink[n + 1].code = resp.status
              /\ sink[n + 2].op = "Write"
              /\ sink[n + 2].val = buf
              /\ HasSuffix(buf, resp.data)
              /\ resp.path \in DOMAIN templates

C4_Witness ==
    /\ outcome = "ok"
    /\ Cardinality(DOMAIN resp.headers) = 2
    /\ resp.status = 404

\* C5: when the final copy to the sink fails, nothing is written to the sink
\* after the failed write.
C5_NoWriteAfterFailedCopy ==
    outcome = "writeerr" => sink[Len(sink)].err # "nil"

\* C6 as stated: views/home of source "-" has key "home", views/index of "-"
\* and of "blog" have keys "index" and "blog:index", and a Response for page
\* "home" is found.
C6_KeysWithoutViewsDir ==
    /\ InitSucceeded => {"home", "index", "blog:index"} \subseteq DOMAIN templates
    /\ (resp.path = "home" /\ lookupAt.err = "nil") => outcome # "notfound"

\* C6: the key of a view file is its path from the source root, the views
\* directory included, without the extension, prefixed with "<source>:" when
\* the source is neither "" nor "-"; a Response whose TemplatePath() is
\* "views/home" is found, one whose TemplatePath() is "home" is not.
C6_KeysFromSourceRoot ==
    /\ InitSucceeded =>
          /\ \A f \in FileIds :
                (builtFrom[f] = "good" /\ IsView(f) /\ HasSuffix(f.path, ".html")) =>
                    (IF f.fs \in {"", "-"} THEN "" ELSE f.fs \o ":")
                       \o SubSeq(f.path, 1, Len(f.path) - 5) \in DOMAIN templates
          /\ {"views/home", "views/index", "blog:views/index"} \subseteq DOMAIN templates
          /\ "views/index" # "blog:views/index"
          /\ templates["views/home"]["content"] = [fs |-> "-", path |-> "views/home.html"]
          /\ templates["blog:views/index"]["content"] =
                [fs |-> "blog", path |-> "views/index.html"]
          /\ templates["views/index"]["content"].fs \in {"", "-"}
          /\ \A k \in DOMAIN templates : HasPrefix(k, "views/") \/ HasPrefix(k, "blog:views/")
    /\ (resp.path = "views/home" /\ lookupAt.err = "nil") => outcome # "notfound"
    /\ (resp.path = "home" /\ lookupAt.pc = "idle") => outcome = "notfound"

C6_Witness ==
    /\ outcome = "ok"
    /\ resp.path = "views/home"
    /\ InitSucceeded

\* C7: two builds from the same unchanged sources yield the same keys and,
\* for every key, layout and data, the same rendered output.
C7_RebuildIsDeterministic ==
    (InitSucceeded /\ callErr = "nil" /\ builtFrom = callBuiltFrom) =>
        /\ DOMAIN templates = DOMAIN callTemplates
        /\ \A k \in DOMAIN templates \cap DOMAIN callTemplates :
              \A l \in {"base", "plain"} :
                  ExecuteTemplate(templates[k], "layout:" \o l, "Hi")
                      = ExecuteTemplate(callTemplates[k], "layout:" \o l, "Hi")

\* C8: after a successful Init the catalog holds exactly the pages of the
\* sources as they were at that Init, built from files that exist in them.
C8_CatalogIsLastBuild ==
    InitSucceeded =>
        /\ DOMAIN templates = ViewKeys(builtFrom)
        /\ \A k \in DOMAIN templates :
              \A n \in DOMAIN templates[k] : builtFrom[templates[k][n]] = "good"

C8_Witness ==
    /\ InitSucceeded
    /\ callErr = "nil"
    /\ DOMAIN templates \subseteq DOMAIN callTemplates
    /\ DOMAIN templates # DOMAIN callTemplates
    /\ DOMAIN templates # {}

\* C9 as stated: after a successful Init every entry holds the definitions of
\* every layout and partial file of every source and of exactly one view file.
C9_HoldsEveryDefinition ==
    InitSucceeded =>
        \A k \in DOMAIN templates :
            /\ \A f \in CommonFiles(builtFrom) :
                  \A n \in ParsedNames(f) :
                      n \in DOMAIN templates[k] /\ templates[k][n] = f
            /\ Cardinality(ViewFilesIn(templates[k])) = 1

\* C9: every entry holds the definitions of exactly one view file, its own,
\* and the common set holds none; after a successful Init every entry defines
\* every name that a layout or partial file of any source defines, bound to
\* one of the layout or partial files defining it (of several files defining
\* a name, one) or to the entry's own view file.
C9_BundlesAreIsolated ==
    /\ ViewFilesIn(commonTemplates) = {}
    /\ \A k \in DOMAIN templates :
          \E g \in FileIds :
              /\ ViewFilesIn(templates[k]) = {g}
              /\ builtFrom[g] = "good"
              /\ HasSuffix(k, TrimSuffix(g.path, ".html"))
    /\ InitSucceeded =>
          \A k \in DOMAIN templates :
              \A f \in CommonFiles(builtFrom) :
                  \A n \in ParsedNames(f) :
                      /\ n \in DOMAIN templates[k]
                      /\ \/ /\ templates[k][n] \in CommonFiles(builtFrom)
                            /\ n \in ParsedNames(templates[k][n])
                         \/ templates[k][n] \in ViewFilesIn(templates[k])

C9_Witness ==
    /\ InitSucceeded
    /\ Cardinality(DOMAIN templates) >= 3
    /\ \E f, g \in CommonFiles(builtFrom) : f # g /\ ParsedNames(f) \cap ParsedNames(g) # {}

\* C10: when the system error page fails to execute, render ends having
\* written the error text with status 500 once, not through handleError.
C10_SystemPageFailsOnce ==
    (resp.path = "views/system/server-error" /\ outcome = "execerr") =>
        /\ rpc = "done"
        /\ handleErrorCalls = 0
        /\ Cardinality(Calls(sink, "WriteHeader")) = 1
        /\ \A i \in Calls(sink, "WriteHeader") : sink[i].code = 500
        /\ Cardinality(Calls(sink, "Write")) = 1
        /\ sink[Len(sink)].op = "Write"
        /\ HasPrefix(sink[Len(sink)].val, "error executing template: ")

C10_Witness ==
    /\ resp.path = "views/system/server-error"
    /\ outcome = "execerr"
    /\ Len(sink) = 4

====
